---- MODULE Spec2Model ----
(***************************************************************************)
(* Model of the vehicle-monitoring stream processor                        *)
(* (src/src/stream-processor/stream_processor.py): the per-frame capture   *)
(* pipeline SmartVehicleCapture.process_frame with its gates, and the      *)
(* frame loop SmartVehicleCapture.run that drives it.                      *)
(* The Signal API handler (src/src/signal-api/handler.py) is modelled in   *)
(* its own section: a container that serves lambda_handler calls.          *)
(*                                                                         *)
(* Units.  The clock takes whole-second values, so                        *)
(* CAPTURE_INTERVAL_SECONDS = 2.0 is 2.  Ratios, confidences and the       *)
(* similarity threshold are in percent (0.05 is 5, 0.6 is 60, 0.85 is 85), *)
(* and comparisons against them are cross-multiplied, so no rounding is    *)
(* introduced.  The ROI is in hundredths of the frame size.                *)
(*                                                                         *)
(* Fingerprints.  imagehash.phash(.., hash_size=16) yields a 256-bit       *)
(* hash and `a - b` is the Hamming distance.  The model draws hashes from  *)
(* the family <<v, n>>: bits 0..127 hold a codeword identifying vehicle v  *)
(* (two distinct codewords differ in 64 bits, as the rows of a 128-bit     *)
(* Hadamard matrix do), bits 128..255 hold n ones followed by zeros.  The  *)
(* Hamming distance of two such hashes is (0 or 64) + |n1 - n2|.           *)
(***************************************************************************)
EXTENDS Integers, Sequences, FiniteSets, TLC

VARIABLES
    state,                      \* position of run(): Connecting, Streaming, Stopped
    cap_ok,                     \* whether the current VideoCapture delivers frames
    opened,                     \* number of cv2.VideoCapture(...) handles created
    released,                   \* number of cap.release() calls
    unreleased,                 \* handles that were opened and on which release() was not called
    frame_count,                \* run(): frame_count
    last_stats_time,            \* run(): last_stats_time
    snapshots,                  \* number of periodic print_stats() calls in the loop
    stop_cause,                 \* why run() ended: none, open_failed, signal, exception
    now,                        \* the wall clock, time.time()
    recent_hashes,              \* self.recent_hashes
    last_capture_time,          \* self.last_capture_time
    frames_since_last_capture,  \* self.frames_since_last_capture (written, never read)
    stats,                      \* self.stats
    bg_updates,                 \* number of bg_subtractor.apply() calls
    detector_calls,             \* number of self.vehicle_detector(...) calls
    upload_attempts,            \* number of s3_client.upload_fileobj(...) calls
    presented,                  \* the hashes handed to the comparison loop, in order
    admitted_at,                \* current_time of every successfully uploaded frame, in order
    outcome,                    \* how the latest process_frame call ended
    last,                       \* what the latest process_frame call read
    vehicles,                   \* process_frame: vehicles of the latest call
    vehicle_in_roi,             \* process_frame: vehicle_in_roi of the latest call
    vehicle_frame,              \* process_frame: the region cut out by the latest call
    tcheck,                     \* current_time of the latest process_frame call (0: not read)
    camera2,                    \* a second SmartVehicleCapture instance in the same process
    trace,                      \* per instance: the calls made on it and how each ended
    container,                  \* signal-api: "cold" before handler.py is imported, then "warm"
    bucket,                     \* signal-api: SIGNAL_CREDENTIALS_S3_BUCKET
    credentials_loaded,         \* signal-api: _credentials_loaded
    extractions,                \* signal-api: completed tar.extractall() calls
    downloads,                  \* signal-api: downloads of the credentials archive tried
    invocations,                \* signal-api: lambda_handler calls
    request,                    \* signal-api: what the latest lambda_handler call was given
    reply                       \* signal-api: what the latest lambda_handler call did

driverVars == <<state, cap_ok, opened, released, unreleased, frame_count, last_stats_time,
                snapshots, stop_cause>>
pipeVars == <<recent_hashes, last_capture_time, frames_since_last_capture, stats,
              bg_updates, detector_calls, upload_attempts, presented, admitted_at, outcome,
              last, vehicles, vehicle_in_roi, vehicle_frame, tcheck>>
fleetVars == <<camera2, trace>>
apiVars == <<container, bucket, credentials_loaded, extractions, downloads, invocations,
             request, reply>>
vars == <<driverVars, pipeVars, fleetVars, apiVars, now>>

(***************************************************************************)
(* Program constants                                                       *)
(***************************************************************************)
CAPTURE_INTERVAL_SECONDS == 2
MOTION_THRESHOLD == 5
VEHICLE_CONFIDENCE_THRESHOLD == 60
HASH_SIMILARITY_THRESHOLD == 85
MAX_RECENT_HASHES == 30
HASH_BITS == 256
FRAME_STRIDE == 3
STATS_INTERVAL == 60
RECONNECT_SLEEP == 5
PADDING == 20

VEHICLE_CLASSES == {2, 3, 5, 7}

\* CameraROI default of __init__, in hundredths
DefaultROI == [x |-> 30, y |-> 35, width |-> 40, height |-> 30]

(***************************************************************************)
(* Bounds of the model                                                     *)
(***************************************************************************)
MaxFrames == 2          \* process_frame calls explored by Spec
MaxReconnects == 1      \* failed reads explored
LongFrames == 33        \* process_frame calls explored by SpecLong
MaxDups == 1            \* re-seen vehicles explored by SpecLong
ZoneFrames == 2         \* process_frame calls explored by SpecZone
DriverFrames == 2       \* process_frame calls explored by SpecDriver
DriverReconnects == 2   \* failed reads explored by SpecDriver
SignalFrames == 2       \* process_frame calls explored by SpecSignal
FleetCalls == 2         \* process_frame calls per instance explored by SpecFleet
OutageReconnects == 13  \* failed reads explored by SpecOutage (more than STATS_INTERVAL)
OutageFrames == 2       \* process_frame calls explored by SpecOutage
HashFrames == 3         \* process_frame calls explored by SpecHash
HandlerCalls == 1       \* lambda_handler calls explored by SpecHandler
ContainerCalls == 3     \* lambda_handler calls explored by SpecContainer
StartTime == 10         \* time.time() when run() starts (any value >= the interval)

(***************************************************************************)
(* Inputs                                                                  *)
(***************************************************************************)
FrameShape == [h |-> 100, w |-> 100]

MotionRatios == {5, 6}

carIn   == [cls |-> 2, conf |-> 90, bbox |-> <<40, 40, 60, 60>>]
carOut  == [cls |-> 2, conf |-> 90, bbox |-> <<0, 0, 20, 20>>]
lowConf == [cls |-> 2, conf |-> 40, bbox |-> <<40, 40, 60, 60>>]

DetectorOutputs == {<< >>, <<carIn>>, <<carOut>>, <<lowConf>>}

NoHash == <<0 - 1, 0>>
Fingerprints == {<<0, 0>>, <<0, 38>>, <<0, 39>>, <<1, 0>>}

Faults == {"none", "detector", "hash", "upload"}
Elapse == {0, 1}
UploadElapse == {0, 1}

(***************************************************************************)
(* Pure helpers                                                            *)
(***************************************************************************)
Abs(x) == IF x < 0 THEN 0 - x ELSE x

\* imagehash: ImageHash.__sub__, the Hamming distance of two hashes
HashDiff(a, b) == (IF a[1] = b[1] THEN 0 ELSE HASH_BITS \div 4) + Abs(a[2] - b[2])

\* similarity = 1 - hash_diff / 256.0;  similarity > HASH_SIMILARITY_THRESHOLD
SimilarOver64Bits(a, b) ==
    (64 - HashDiff(a, b)) * 100 > HASH_SIMILARITY_THRESHOLD * 64
Similar(a, b) ==
    (HASH_BITS - HashDiff(a, b)) * 100 > HASH_SIMILARITY_THRESHOLD * HASH_BITS

\* has_significant_motion: self.bg_subtractor.apply(frame) runs, before the ratio is
\* compared, on every frame the function is given
ApplyBackgroundOnMotion(updates, moving) == updates + (IF moving THEN 1 ELSE 0)
ApplyBackground(updates, moving) == updates + 1

\* has_significant_motion: motion_percentage > MOTION_THRESHOLD
HasSignificantMotionInclusive(m) == m >= MOTION_THRESHOLD
HasSignificantMotion(m) == m > MOTION_THRESHOLD

\* The ROI's bounds are computed in binary floating point.  For the default ROI
\* and the frame sizes of FrameShape: 0.3 + 0.4 = 0.7 and the products 100 * 0.3,
\* 100 * 0.7 and 100 * 0.35 are exactly 30.0, 70.0 and 35.0, but 0.35 + 0.3 is
\* 0.6499999999999999 and 100 * 0.6499999999999999 = 64.99999999999999: the sum of
\* origin 0.35 and extent 0.3 falls just under the exact value, by less than any
\* distance between two centres.
SumFallsShort(origin, extent) == origin = 35 /\ extent = 30

\* c <= frame_size * (origin + extent), on the doubled coordinate c2
AtMostUpper(c2, frame_size, origin, extent) ==
    IF SumFallsShort(origin, extent)
    THEN 100 * c2 < 2 * frame_size * (origin + extent)
    ELSE 100 * c2 <= 2 * frame_size * (origin + extent)

\* is_in_capture_zone, on the doubled centre (cx2 = x1 + x2, cy2 = y1 + y2)
IsInCaptureZone(cx2, cy2, frame_width, frame_height) ==
    LET roi_x_min == frame_width * DefaultROI.x
        roi_y_min == frame_height * DefaultROI.y
    IN  /\ 2 * roi_x_min <= 100 * cx2
        /\ AtMostUpper(cx2, frame_width, DefaultROI.x, DefaultROI.width)
        /\ 2 * roi_y_min <= 100 * cy2
        /\ AtMostUpper(cy2, frame_height, DefaultROI.y, DefaultROI.height)

\* the filter of detect_vehicles_yolo
IsKeptAtThreshold(box) ==
    box.cls \in VEHICLE_CLASSES /\ box.conf >= VEHICLE_CONFIDENCE_THRESHOLD
IsKept(box) == box.cls \in VEHICLE_CLASSES /\ box.conf > VEHICLE_CONFIDENCE_THRESHOLD

RECURSIVE DetectVehiclesYolo(_)
DetectVehiclesYolo(boxes) ==
    IF boxes = << >> THEN << >>
    ELSE LET box == Head(boxes)
             rest == DetectVehiclesYolo(Tail(boxes))
         IN  IF IsKept(box)
             THEN <<[class_id |-> box.cls, confidence |-> box.conf, bbox |-> box.bbox,
                     in_roi |-> IsInCaptureZone(box.bbox[1] + box.bbox[3],
                                                box.bbox[2] + box.bbox[4],
                                                FrameShape.w, FrameShape.h)]>> \o rest
             ELSE rest

\* process_frame: the loop that finds the first vehicle with in_roi (0: none)
MostConfidentInRoi(found) ==
    IF \A i \in 1..Len(found) : ~found[i].in_roi THEN 0
    ELSE CHOOSE i \in 1..Len(found) :
            /\ found[i].in_roi
            /\ \A j \in 1..Len(found) :
                  found[j].in_roi => found[j].confidence <= found[i].confidence
RECURSIVE FirstInRoiFrom(_, _)
FirstInRoiFrom(found, i) ==
    IF i > Len(found) THEN 0
    ELSE IF found[i].in_roi THEN i ELSE FirstInRoiFrom(found, i + 1)
FirstInRoi(found) == FirstInRoiFrom(found, 1)

\* process_frame: not (time_since_last_capture < CAPTURE_INTERVAL_SECONDS)
RateLimitPassesAlways(current_time, last_time) == TRUE
RateLimitPassesStrict(current_time, last_time) ==
    current_time - last_time > CAPTURE_INTERVAL_SECONDS
RateLimitPasses(current_time, last_time) ==
    ~(current_time - last_time < CAPTURE_INTERVAL_SECONDS)

\* extract_vehicle_region: the box grown by int(size * padding) on each side and
\* clamped to the frame; the region is frame[y1:y2, x1:x2]
Pad(size) == (size * PADDING) \div 100
ExtractVehicleRegionUnclamped(bbox, w, h) ==
    <<bbox[1] - Pad(bbox[3] - bbox[1]), bbox[2] - Pad(bbox[4] - bbox[2]),
      bbox[3] + Pad(bbox[3] - bbox[1]), bbox[4] + Pad(bbox[4] - bbox[2])>>
ExtractVehicleRegion(bbox, w, h) ==
    LET x_pad == Pad(bbox[3] - bbox[1])
        y_pad == Pad(bbox[4] - bbox[2])
        Max(a, b) == IF a > b THEN a ELSE b
        Min(a, b) == IF a < b THEN a ELSE b
    IN  <<Max(0, bbox[1] - x_pad), Max(0, bbox[2] - y_pad),
          Min(w, bbox[3] + x_pad), Min(h, bbox[4] + y_pad)>>

\* process_frame: the region is extracted and compared only by a frame that has a
\* vehicle in the ROI and was not turned away by the rate limiter
ReachesDedupBeforeRateLimit(in_roi, rate_ok) == in_roi
ReachesDedup(in_roi, rate_ok) == in_roi /\ rate_ok

\* is_duplicate_vehicle: the comparison loop over self.recent_hashes
MatchesNewestOnly(cache, h) == cache # << >> /\ Similar(h, cache[Len(cache)])
MatchesRecent(cache, h) == \E i \in 1..Len(cache) : Similar(h, cache[i])

\* is_duplicate_vehicle: append, then pop(0) when the cache is over its size
InsertNoEvict(cache, h) == Append(cache, h)
InsertEvictNewest(cache, h) ==
    IF Len(cache) + 1 > MAX_RECENT_HASHES THEN Append(SubSeq(cache, 1, Len(cache) - 1), h)
    ELSE Append(cache, h)
InsertHash(cache, h) ==
    LET appended == Append(cache, h)
    IN  IF Len(appended) > MAX_RECENT_HASHES THEN Tail(appended) ELSE appended

\* is_duplicate_vehicle: the answer and the cache it leaves
IsDuplicateVehicleRefresh(cache, h) ==
    IF MatchesRecent(cache, h)
    THEN LET i == CHOOSE j \in 1..Len(cache) : Similar(h, cache[j])
         IN  [dup |-> TRUE,
              cache |-> Append(SubSeq(cache, 1, i - 1) \o SubSeq(cache, i + 1, Len(cache)),
                               cache[i])]
    ELSE [dup |-> FALSE, cache |-> InsertHash(cache, h)]
IsDuplicateVehicle(cache, h) ==
    IF MatchesRecent(cache, h)
    THEN [dup |-> TRUE, cache |-> cache]
    ELSE [dup |-> FALSE, cache |-> InsertHash(cache, h)]

\* process_frame: if success: self.last_capture_time = current_time
RecordAlways(success, current_time, last_time) == current_time
RecordCapture(success, current_time, last_time) ==
    IF success THEN current_time ELSE last_time

\* upload_to_s3: the counter it bumps
UploadToS3(st, ok) ==
    IF ok THEN [st EXCEPT !.captures_uploaded = @ + 1]
    ELSE [st EXCEPT !.errors = @ + 1]

\* self.stats[counter] += 1, in the branch that cond guards
BumpAlways(st, counter, cond) == [st EXCEPT ![counter] = @ + 1]
Bump(st, counter, cond) == IF cond THEN [st EXCEPT ![counter] = @ + 1] ELSE st

(***************************************************************************)
(* State after construction (__init__) and on entry to run()               *)
(***************************************************************************)
InitStats == [frames_processed |-> 0, motion_detected |-> 0, vehicles_detected |-> 0,
              vehicles_in_roi |-> 0, duplicates_filtered |-> 0,
              captures_uploaded |-> 0, errors |-> 0]

NoFrame == [motion |-> 0, raw |-> << >>, hash |-> NoHash, fault |-> "none"]

\* no region was cut out
NoRegion == <<0, 0, 0, 0>>

\* the attributes __init__ gives an instance
NewPipeline == [recent_hashes |-> << >>, last_capture_time |-> 0, stats |-> InitStats,
                bg_updates |-> 0]

\* None or an empty string, where the code only tests the value for truth
Falsy == << >>

\* the request of a lambda_handler call and what its collaborators answer
NoRequest == [wrapped |-> FALSE, body |-> "dict", action |-> "", code |-> "",
           download |-> "ok", lookup_fails |-> 0, secret |-> "dict",
           credentials |-> [phoneNumber |-> Falsy], cli |-> "ok"]

\* the result of a lambda_handler call, before the first one
NoReply == [statusCode |-> 0, raised |-> FALSE, sends |-> 0, runs |-> 0,
            notified |-> FALSE]

\* vehicle_in_roi = None
NoVehicle == [class_id |-> 0, confidence |-> 0, bbox |-> <<0, 0, 0, 0>>, in_roi |-> FALSE]

Init ==
    /\ state = "Connecting"
    /\ cap_ok = FALSE
    /\ opened = 0
    /\ released = 0
    /\ unreleased = 0
    /\ frame_count = 0
    /\ last_stats_time = 0
    /\ snapshots = 0
    /\ stop_cause = "none"
    /\ now = StartTime
    /\ recent_hashes = << >>
    /\ last_capture_time = 0
    /\ frames_since_last_capture = 0
    /\ stats = InitStats
    /\ bg_updates = 0
    /\ detector_calls = 0
    /\ upload_attempts = 0
    /\ presented = << >>
    /\ admitted_at = << >>
    /\ outcome = "none"
    /\ last = NoFrame
    /\ vehicles = << >>
    /\ vehicle_in_roi = NoVehicle
    /\ vehicle_frame = NoRegion
    /\ tcheck = 0
    /\ camera2 = NewPipeline
    /\ trace = <<<< >>, << >>>>
    /\ container = "cold"
    /\ bucket = Falsy
    /\ credentials_loaded = FALSE
    /\ extractions = 0
    /\ downloads = 0
    /\ invocations = 0
    /\ request = NoRequest
    /\ reply = NoReply

(***************************************************************************)
(* The frames.  A frame f carries what one process_frame call reads from   *)
(* its environment: f.motion the motion ratio, f.raw the detector's        *)
(* output, f.hash the hash of the extracted region, f.fault the external   *)
(* call that fails (if any), f.d1 the time that passes up to the           *)
(* rate-limit check and f.d2 the time the upload takes.  What a call never *)
(* reads (the detector's output of a frame without motion, ...) is fixed,  *)
(* so that two frames differ only where the call can tell them apart.      *)
(***************************************************************************)
Moving == {m \in MotionRatios : HasSignificantMotion(m)}
InZone == {raw \in DetectorOutputs : FirstInRoi(DetectVehiclesYolo(raw)) # 0}

Frame(m, raw, h, fault, d1, d2) ==
    [motion |-> m, raw |-> raw, hash |-> h, fault |-> fault, d1 |-> d1, d2 |-> d2]

Frames ==
    {Frame(m, << >>, NoHash, "none", d1, 0) : m \in MotionRatios \ Moving, d1 \in Elapse}
    \cup {Frame(m, << >>, NoHash, "detector", d1, 0) : m \in Moving, d1 \in Elapse}
    \cup {Frame(m, raw, NoHash, "none", d1, 0) :
              m \in Moving, raw \in DetectorOutputs \ InZone, d1 \in Elapse}
    \cup {Frame(m, raw, NoHash, "hash", d1, 0) : m \in Moving, raw \in InZone, d1 \in Elapse}
    \cup {Frame(m, raw, h, fault, d1, d2) :
              m \in Moving, raw \in InZone, h \in Fingerprints, fault \in {"none", "upload"},
              d1 \in Elapse, d2 \in UploadElapse}

(***************************************************************************)
(* process_frame, as one step                                              *)
(***************************************************************************)
ProcessFrame(f) ==
    LET motion     == HasSignificantMotion(f.motion)
        detRaise   == motion /\ f.fault = "detector"
        detected   == motion /\ ~detRaise
        found      == IF detected THEN DetectVehiclesYolo(f.raw) ELSE << >>
        sel        == FirstInRoi(found)
        inRoi      == sel # 0
        current    == now + f.d1
        rateOk     == RateLimitPasses(current, last_capture_time)
        ratePass   == inRoi /\ rateOk
        reach      == ReachesDedup(inRoi, rateOk)
        hashRaise  == reach /\ f.fault = "hash"
        compared   == reach /\ ~hashRaise
        dedup      == IsDuplicateVehicle(recent_hashes, f.hash)
        dup        == compared /\ dedup.dup
        tryUpload  == compared /\ ~dedup.dup
        ok         == f.fault # "upload"
        success    == tryUpload /\ ok
        after      == current + (IF tryUpload THEN f.d2 ELSE 0)
        s1 == Bump(stats, "frames_processed", TRUE)
        s2 == Bump(s1, "motion_detected", motion)
        s3 == Bump(s2, "vehicles_detected", found # << >>)
        s4 == Bump(s3, "vehicles_in_roi", inRoi)
        s5 == Bump(s4, "duplicates_filtered", dup)
        s6 == IF tryUpload THEN UploadToS3(s5, ok) ELSE s5
    IN  /\ stats' = s6
        /\ bg_updates' = ApplyBackground(bg_updates, motion)
        /\ detector_calls' = detector_calls + (IF motion THEN 1 ELSE 0)
        /\ recent_hashes' = IF compared THEN dedup.cache ELSE recent_hashes
        /\ presented' = IF compared THEN Append(presented, f.hash) ELSE presented
        /\ admitted_at' = IF success THEN Append(admitted_at, current) ELSE admitted_at
        /\ upload_attempts' = upload_attempts + (IF tryUpload THEN 1 ELSE 0)
        /\ last_capture_time' =
              IF tryUpload THEN RecordCapture(success, current, last_capture_time)
              ELSE last_capture_time
        /\ frames_since_last_capture' =
              IF success THEN 0 ELSE frames_since_last_capture + 1
        /\ now' = after
        /\ outcome' = CASE ~motion -> "no_motion"
                        [] detRaise -> "raised"
                        [] found = << >> -> "no_detection"
                        [] ~inRoi -> "no_detection_in_zone"
                        [] ~ratePass -> "rate_limited"
                        [] hashRaise -> "raised"
                        [] dup -> "duplicate"
                        [] success -> "admitted"
                        [] OTHER -> "forward_failed"
        /\ last' = [motion |-> f.motion,
                    raw |-> IF detected THEN f.raw ELSE << >>,
                    hash |-> IF compared THEN f.hash ELSE NoHash,
                    fault |-> IF detRaise \/ hashRaise \/ (tryUpload /\ ~ok)
                              THEN f.fault ELSE "none"]
        /\ vehicles' = found
        /\ vehicle_in_roi' = IF inRoi THEN found[sel] ELSE NoVehicle
        /\ vehicle_frame' =
              IF reach
              THEN ExtractVehicleRegion(found[sel].bbox, FrameShape.w, FrameShape.h)
              ELSE NoRegion
        /\ tcheck' = IF inRoi THEN current ELSE 0

(***************************************************************************)
(* process_frame on an instance given as a record of its attributes: the   *)
(* attributes it leaves and how the call ended.  t is the time of the call.*)
(***************************************************************************)
PipelineStep(p, f, t) ==
    LET motion     == HasSignificantMotion(f.motion)
        detRaise   == motion /\ f.fault = "detector"
        found      == IF motion /\ ~detRaise THEN DetectVehiclesYolo(f.raw) ELSE << >>
        inRoi      == FirstInRoi(found) # 0
        current    == t + f.d1
        rateOk     == RateLimitPasses(current, p.last_capture_time)
        reach      == ReachesDedup(inRoi, rateOk)
        hashRaise  == reach /\ f.fault = "hash"
        compared   == reach /\ ~hashRaise
        dedup      == IsDuplicateVehicle(p.recent_hashes, f.hash)
        dup        == compared /\ dedup.dup
        tryUpload  == compared /\ ~dedup.dup
        ok         == f.fault # "upload"
        success    == tryUpload /\ ok
        s1 == Bump(p.stats, "frames_processed", TRUE)
        s2 == Bump(s1, "motion_detected", motion)
        s3 == Bump(s2, "vehicles_detected", found # << >>)
        s4 == Bump(s3, "vehicles_in_roi", inRoi)
        s5 == Bump(s4, "duplicates_filtered", dup)
        s6 == IF tryUpload THEN UploadToS3(s5, ok) ELSE s5
    IN  [pipe |-> [recent_hashes |-> IF compared THEN dedup.cache ELSE p.recent_hashes,
                   last_capture_time |->
                       IF tryUpload THEN RecordCapture(success, current, p.last_capture_time)
                       ELSE p.last_capture_time,
                   stats |-> s6,
                   bg_updates |-> ApplyBackground(p.bg_updates, motion)],
         outcome |-> CASE ~motion -> "no_motion"
                       [] detRaise -> "raised"
                       [] found = << >> -> "no_detection"
                       [] ~inRoi -> "no_detection_in_zone"
                       [] ~(inRoi /\ rateOk) -> "rate_limited"
                       [] hashRaise -> "raised"
                       [] dup -> "duplicate"
                       [] success -> "admitted"
                       [] OTHER -> "forward_failed",
         elapsed |-> f.d1 + (IF tryUpload THEN f.d2 ELSE 0)]

\* self.recent_hashes is an attribute of the instance, created by its __init__: a
\* call reads and writes the list of its own instance
CacheOfAnyInstance(own, other) == IF other # << >> THEN other ELSE own
CacheOf(own, other) == own

\* a process_frame call on the first instance (the one the variables describe)
Camera1Frame(f) ==
    /\ ProcessFrame(f)
    /\ trace' = [trace EXCEPT ![1] = Append(@, <<f, now, outcome'>>)]
    /\ UNCHANGED <<driverVars, camera2, apiVars>>

\* a process_frame call on the second instance
Camera2Frame(f) ==
    LET seen == [camera2 EXCEPT
                    !.recent_hashes = CacheOf(camera2.recent_hashes, recent_hashes)]
        r    == PipelineStep(seen, f, now)
    IN  /\ camera2' = r.pipe
        /\ trace' = [trace EXCEPT ![2] = Append(@, <<f, now, r.outcome>>)]
        /\ now' = now + r.elapsed
        /\ UNCHANGED <<driverVars, pipeVars, apiVars>>

(***************************************************************************)
(* run()                                                                   *)
(***************************************************************************)
\* cap = cv2.VideoCapture(url); if not cap.isOpened(): return
Open(ok) ==
    /\ state = "Connecting"
    /\ opened' = opened + 1
    /\ cap_ok' = ok
    /\ state' = IF ok THEN "Streaming" ELSE "Stopped"
    /\ stop_cause' = IF ok THEN "none" ELSE "open_failed"
    /\ frame_count' = 0
    /\ last_stats_time' = IF ok THEN now ELSE last_stats_time
    /\ unreleased' = unreleased + (IF ok THEN 1 ELSE 0)
    /\ UNCHANGED <<released, snapshots, now, pipeVars, fleetVars, apiVars>>

\* ret is False: sleep, open the source again, continue
ReadFailRestarts(reopened) ==
    /\ state = "Streaming"
    /\ now' = now + RECONNECT_SLEEP
    /\ opened' = opened + 1
    /\ cap_ok' = reopened
    /\ frame_count' = 0
    /\ unreleased' = unreleased + (IF reopened THEN 1 ELSE 0)
    /\ UNCHANGED <<state, released, last_stats_time, snapshots, stop_cause, pipeVars,
                   fleetVars, apiVars>>
ReadFail(reopened) ==
    /\ state = "Streaming"
    /\ now' = now + RECONNECT_SLEEP
    /\ opened' = opened + 1
    /\ cap_ok' = reopened
    /\ unreleased' = unreleased + (IF reopened THEN 1 ELSE 0)
    /\ UNCHANGED <<state, released, frame_count, last_stats_time, snapshots, stop_cause,
                   pipeVars, fleetVars, apiVars>>

\* frame_count % 3 != 0: continue
SampledOneEarly(count) == count % FRAME_STRIDE = FRAME_STRIDE - 1
Sampled(count) == count % FRAME_STRIDE = 0

\* a frame is read and dropped by the sampling stride
ReadSkip ==
    /\ state = "Streaming"
    /\ cap_ok
    /\ ~Sampled(frame_count + 1)
    /\ frame_count' = frame_count + 1
    /\ UNCHANGED <<state, cap_ok, opened, released, unreleased, last_stats_time, snapshots,
                   stop_cause, now, pipeVars, fleetVars, apiVars>>

\* what the loop does when process_frame raises: except Exception, finally
OnException(raised) ==
    IF raised THEN [state |-> "Stopped", released |-> released + 1, cause |-> "exception"]
    ELSE [state |-> "Streaming", released |-> released, cause |-> "none"]

\* a frame is read, sampled and processed; then the periodic statistics
ReadProcess(f) ==
    /\ state = "Streaming"
    /\ cap_ok
    /\ Sampled(frame_count + 1)
    /\ frame_count' = frame_count + 1
    /\ ProcessFrame(f)
    /\ LET raised == outcome' = "raised"
           next == OnException(raised)
           due == ~raised /\ now' - last_stats_time >= STATS_INTERVAL
       IN  /\ state' = next.state
           /\ released' = next.released
           /\ unreleased' = unreleased - (next.released - released)
           /\ stop_cause' = next.cause
           /\ snapshots' = snapshots + (IF due THEN 1 ELSE 0)
           /\ last_stats_time' = IF due THEN now' ELSE last_stats_time
    /\ UNCHANGED <<cap_ok, opened, fleetVars, apiVars>>

\* KeyboardInterrupt between two frames: finally releases the handle
Stop ==
    /\ state = "Streaming"
    /\ state' = "Stopped"
    /\ stop_cause' = "signal"
    /\ released' = released + 1
    /\ unreleased' = unreleased - (IF cap_ok THEN 1 ELSE 0)
    /\ UNCHANGED <<cap_ok, opened, frame_count, last_stats_time, snapshots, now, pipeVars,
                   fleetVars, apiVars>>

\* KeyboardInterrupt raised inside process_frame, for a frame on its way to the
\* upload: at point "hashed" after is_duplicate_vehicle has appended the hash and
\* before upload_to_s3 is called, at point "uploaded" after upload_to_s3 has returned
\* True and before last_capture_time is assigned.  upload_to_s3 catches Exception
\* only, so the interrupt leaves process_frame and reaches run()'s handler.
InterruptPoints == {"hashed", "uploaded"}

InterruptFrame(f, point) ==
    /\ state = "Streaming"
    /\ cap_ok
    /\ Sampled(frame_count + 1)
    /\ frame_count' = frame_count + 1
    /\ LET found   == DetectVehiclesYolo(f.raw)
           sel     == FirstInRoi(found)
           current == now + f.d1
           dedup   == IsDuplicateVehicle(recent_hashes, f.hash)
           done    == point = "uploaded"
           s1 == Bump(stats, "frames_processed", TRUE)
           s2 == Bump(s1, "motion_detected", TRUE)
           s3 == Bump(s2, "vehicles_detected", TRUE)
           s4 == Bump(s3, "vehicles_in_roi", TRUE)
       IN  /\ HasSignificantMotion(f.motion)
           /\ f.fault = "none"
           /\ sel # 0
           /\ ReachesDedup(TRUE, RateLimitPasses(current, last_capture_time))
           /\ ~dedup.dup
           /\ stats' = IF done THEN UploadToS3(s4, TRUE) ELSE s4
           /\ bg_updates' = bg_updates + 1
           /\ detector_calls' = detector_calls + 1
           /\ recent_hashes' = dedup.cache
           /\ presented' = Append(presented, f.hash)
           /\ upload_attempts' = upload_attempts + (IF done THEN 1 ELSE 0)
           /\ admitted_at' = IF done THEN Append(admitted_at, current) ELSE admitted_at
           /\ last_capture_time' = last_capture_time
           /\ frames_since_last_capture' = frames_since_last_capture + 1
           /\ now' = current + (IF done THEN f.d2 ELSE 0)
           /\ outcome' = "interrupted"
           /\ last' = [motion |-> f.motion, raw |-> f.raw, hash |-> f.hash, fault |-> "none"]
           /\ vehicles' = found
           /\ vehicle_in_roi' = found[sel]
           /\ vehicle_frame' = ExtractVehicleRegion(found[sel].bbox, FrameShape.w, FrameShape.h)
           /\ tcheck' = current
    /\ state' = "Stopped"
    /\ stop_cause' = "signal"
    /\ released' = released + 1
    /\ unreleased' = unreleased - 1
    /\ UNCHANGED <<cap_ok, opened, last_stats_time, snapshots, fleetVars, apiVars>>

(***************************************************************************)
(* Spec: every input, a few frames                                         *)
(***************************************************************************)
Next ==
    \/ \E ok \in BOOLEAN : Open(ok)
    \/ \E reopened \in BOOLEAN : opened <= MaxReconnects /\ ReadFail(reopened)
    \/ ReadSkip
    \/ \E f \in Frames :
            /\ stats.frames_processed < MaxFrames
            /\ ReadProcess(f)
    \/ Stop

Spec == Init /\ [][Next]_vars

(***************************************************************************)
(* SpecLong: many frames of vehicles in the capture zone, each one either  *)
(* a vehicle not seen before or one that is in the cache (its oldest or    *)
(* its newest entry), so that the cache fills up and evicts.               *)
(***************************************************************************)
FreshHash == <<Len(presented) + 2, 0>>

LongHashes ==
    {FreshHash} \cup
    (IF recent_hashes # << >> /\ stats.duplicates_filtered < MaxDups
     THEN {recent_hashes[1], recent_hashes[Len(recent_hashes)]}
     ELSE {})

NextLong ==
    \/ Open(TRUE)
    \/ ReadSkip
    \/ \E h \in LongHashes :
            /\ stats.frames_processed < LongFrames
            /\ ReadProcess([motion |-> 6, raw |-> <<carIn>>, hash |-> h, fault |-> "none",
                            d1 |-> 2, d2 |-> 0])

SpecLong == Init /\ [][NextLong]_vars

(***************************************************************************)
(* SpecZone: frames with motion whose detector output varies: classes in   *)
(* and out of VEHICLE_CLASSES, confidences below, at and above the         *)
(* threshold, boxes centred in, on the edges of and outside the capture    *)
(* zone, and several boxes in one output.  Every frame comes               *)
(* CAPTURE_INTERVAL_SECONDS after the one before and shows a vehicle not   *)
(* seen before.                                                            *)
(***************************************************************************)
edgeConf   == [cls |-> 2, conf |-> VEHICLE_CONFIDENCE_THRESHOLD, bbox |-> <<40, 40, 60, 60>>]
overConf   == [cls |-> 2, conf |-> VEHICLE_CONFIDENCE_THRESHOLD + 1, bbox |-> <<40, 40, 60, 60>>]
person     == [cls |-> 0, conf |-> 90, bbox |-> <<40, 40, 60, 60>>]
motorcycle == [cls |-> 3, conf |-> 80, bbox |-> <<45, 45, 55, 55>>]
bus        == [cls |-> 5, conf |-> 95, bbox |-> <<35, 40, 65, 60>>]
truckIn    == [cls |-> 7, conf |-> 70, bbox |-> <<30, 40, 60, 70>>]
onTop      == [cls |-> 2, conf |-> 90, bbox |-> <<40, 25, 60, 45>>]
onBottom   == [cls |-> 2, conf |-> 90, bbox |-> <<40, 55, 60, 75>>]
onLeft     == [cls |-> 2, conf |-> 90, bbox |-> <<20, 40, 40, 60>>]
onRight    == [cls |-> 2, conf |-> 90, bbox |-> <<60, 40, 80, 60>>]
underZone  == [cls |-> 2, conf |-> 90, bbox |-> <<40, 55, 60, 76>>]
leftOfZone == [cls |-> 2, conf |-> 90, bbox |-> <<20, 40, 39, 60>>]
wholeFrame == [cls |-> 2, conf |-> 90, bbox |-> <<0, 0, 100, 100>>]
cornerBox  == [cls |-> 2, conf |-> 90, bbox |-> <<0, 0, 50, 50>>]

ZoneBoxes ==
    {carIn, carOut, lowConf, edgeConf, overConf, person, motorcycle, bus, truckIn,
     onTop, onBottom, onLeft, onRight, underZone, leftOfZone, wholeFrame, cornerBox}

PairBoxes == {carIn, carOut, truckIn, lowConf}

\* boxes centred in the zone that reach the borders of the frame, a box without
\* extent and a box whose sides are not multiples of five
CropBoxes ==
    {[cls |-> 2, conf |-> 90, bbox |-> b] :
        b \in {<<40, 40, 100, 60>>, <<0, 40, 60, 60>>, <<40, 0, 60, 70>>, <<40, 28, 60, 100>>,
               <<50, 50, 50, 50>>, <<41, 41, 58, 60>>}}

ZoneOutputs ==
    {<< >>, <<carOut, truckIn, carIn>>, <<person, carOut, carIn, truckIn>>}
    \cup {<<b>> : b \in ZoneBoxes \cup CropBoxes}
    \cup {<<a, b>> : a, b \in PairBoxes}

NextZone ==
    \/ Open(TRUE)
    \/ ReadSkip
    \/ \E raw \in ZoneOutputs :
            /\ stats.frames_processed < ZoneFrames
            /\ ReadProcess(Frame(6, raw, FreshHash, "none", CAPTURE_INTERVAL_SECONDS, 0))

SpecZone == Init /\ [][NextZone]_vars

(***************************************************************************)
(* SpecDriver: the read loop with repeated read failures around frames     *)
(* without motion and frames of one vehicle in the capture zone.           *)
(***************************************************************************)
stillFrame   == Frame(5, << >>, NoHash, "none", 0, 0)
vehicleFrame == Frame(6, <<carIn>>, <<0, 0>>, "none", 0, 0)

DriverInputs == {stillFrame, vehicleFrame}

NextDriver ==
    \/ \E ok \in BOOLEAN : Open(ok)
    \/ \E reopened \in BOOLEAN : opened <= DriverReconnects /\ ReadFail(reopened)
    \/ ReadSkip
    \/ \E f \in DriverInputs :
            /\ stats.frames_processed < DriverFrames
            /\ ReadProcess(f)
    \/ Stop

SpecDriver == Init /\ [][NextDriver]_vars

(***************************************************************************)
(* SpecSignal: the read loop with a stop signal that arrives between two   *)
(* frames or inside process_frame.                                         *)
(***************************************************************************)
SignalInputs ==
    {stillFrame}
    \cup {Frame(6, <<carIn>>, h, "none", d1, 0) :
              h \in {<<0, 0>>, <<1, 0>>}, d1 \in {0, CAPTURE_INTERVAL_SECONDS}}

NextSignal ==
    \/ Open(TRUE)
    \/ ReadSkip
    \/ \E f \in SignalInputs :
            /\ stats.frames_processed < SignalFrames
            /\ ReadProcess(f)
    \/ Stop
    \/ \E f \in SignalInputs, point \in InterruptPoints :
            /\ stats.frames_processed < SignalFrames
            /\ InterruptFrame(f, point)

SpecSignal == Init /\ [][NextSignal]_vars

(***************************************************************************)
(* SpecFleet: two instances in one process, their process_frame calls      *)
(* interleaved in every order.                                             *)
(***************************************************************************)
FleetInputs ==
    {stillFrame}
    \cup {Frame(6, <<carIn>>, <<0, 0>>, "none", d1, 0) : d1 \in {0, CAPTURE_INTERVAL_SECONDS}}

NextFleet ==
    \/ \E f \in FleetInputs : Len(trace[1]) < FleetCalls /\ Camera1Frame(f)
    \/ \E f \in FleetInputs : Len(trace[2]) < FleetCalls /\ Camera2Frame(f)

SpecFleet == Init /\ [][NextFleet]_vars

(***************************************************************************)
(* SpecOutage: the source stays away for longer than STATS_INTERVAL: read  *)
(* after read fails, RECONNECT_SLEEP apart, around frames without motion.  *)
(***************************************************************************)
NextOutage ==
    \/ Open(TRUE)
    \/ \E reopened \in BOOLEAN : opened <= OutageReconnects /\ ReadFail(reopened)
    \/ ReadSkip
    \/ stats.frames_processed < OutageFrames /\ ReadProcess(stillFrame)
    \/ Stop

SpecOutage == Init /\ [][NextOutage]_vars

(***************************************************************************)
(* SpecHash: frames of vehicles in the capture zone,                       *)
(* CAPTURE_INTERVAL_SECONDS apart, whose hashes lie at distances around    *)
(* the similarity threshold from each other (38, 39, 77, 78 bits) or far   *)
(* apart.                                                                  *)
(***************************************************************************)
HashInputs == {<<0, 0>>, <<0, 38>>, <<0, 39>>, <<0, 77>>, <<0, 78>>, <<1, 0>>}

NextHash ==
    \/ Open(TRUE)
    \/ ReadSkip
    \/ \E h \in HashInputs :
            /\ stats.frames_processed < HashFrames
            /\ ReadProcess(Frame(6, <<carIn>>, h, "none", CAPTURE_INTERVAL_SECONDS, 0))

SpecHash == Init /\ [][NextHash]_vars

(***************************************************************************)
(* The Signal API handler (src/src/signal-api/handler.py).  One container  *)
(* imports the module once and then serves lambda_handler calls one at a   *)
(* time.  Strings the handler takes apart (the group URL, the group ID)    *)
(* are sequences of characters; a missing value and an empty one are both  *)
(* Falsy, which is all the handler tests them for.                         *)
(***************************************************************************)
\* dict.get(key): None when the key is missing
Get(dict, key) == IF key \in DOMAIN dict THEN dict[key] ELSE Falsy

\* the position of the first ch in text from position i on, 0 when there is none
RECURSIVE Find(_, _, _)
Find(text, ch, i) ==
    IF i > Len(text) THEN 0
    ELSE IF text[i] = ch THEN i
    ELSE Find(text, ch, i + 1)

\* text.split('#')[1], for a text that holds a '#'
SecondField(text) ==
    LET first == Find(text, "#", 1)
        next  == Find(text, "#", first + 1)
    IN  SubSeq(text, first + 1, IF next = 0 THEN Len(text) ELSE next - 1)

\* url_safe_b64.replace('-', '+').replace('_', '/')
StandardAlphabet(text) ==
    [i \in 1..Len(text) |-> IF text[i] = "-" THEN "+"
                            ELSE IF text[i] = "_" THEN "/"
                            ELSE text[i]]

\* standard_b64 += '=' * (4 - padding) when len(standard_b64) % 4 is not 0
Padded(text) ==
    LET padding == Len(text) % 4
    IN  IF padding # 0 THEN text \o [i \in 1..(4 - padding) |-> "="] ELSE text

GetGroupIdFromCredentials(credentials) ==
    IF "groupId" \in DOMAIN credentials
    THEN credentials.groupId
    ELSE LET group_url == Get(credentials, "groupUrl")
         IN  IF group_url = Falsy \/ Find(group_url, "#", 1) = 0
             THEN Falsy
             ELSE Padded(StandardAlphabet(SecondField(group_url)))

\* how the try block of download_signal_credentials can end: with an exception up to
\* and in download_fileobj, in tarfile.open or extractall, in os.unlink of the
\* temporary file, or without one
DownloadOutcomes == {"download_failed", "extract_failed", "cleanup_failed", "ok"}

\* download_signal_credentials(): the new flag, whether it tried the download (entered
\* its try block), the extractall calls it completed, and whether an exception leaves it
DownloadSignalCredentials(loaded, s3_bucket, result) ==
    IF loaded
    THEN [loaded |-> TRUE, downloads |-> 0, extractions |-> 0, raised |-> FALSE]
    ELSE IF s3_bucket = Falsy
    THEN [loaded |-> FALSE, downloads |-> 0, extractions |-> 0, raised |-> FALSE]
    ELSE [loaded      |-> result = "ok",
          downloads   |-> 1,
          extractions |-> IF result \in {"cleanup_failed", "ok"} THEN 1 ELSE 0,
          raised      |-> FALSE]

\* how a signal-cli run can end: exit code 0, another exit code, another exit code
\* with a text that check_for_session_error recognises, or subprocess.run raising
\* (TimeoutExpired, or the binary missing)
CliOutcomes == {"ok", "failed", "expired", "timeout"}

\* get_signal_credentials(), the n-th call of it in one lambda_handler call: raises when
\* Secrets Manager fails or the SecretString is not JSON
GetSignalCredentials(req, n) ==
    [raised |-> req.lookup_fails = n \/ req.secret = "invalid",
     isdict |-> req.secret = "dict",
     value  |-> req.credentials]

\* the mutant reports a timed-out signal-cli run as sent
SendSignalMessageTimeoutIsSent(cli) ==
    [sent |-> cli \in {"ok", "timeout"}, sends |-> 1, runs |-> 1,
     notified |-> cli = "expired"]

\* send_signal_message(..., is_group=True): True exactly when signal-cli exits with 0;
\* a recognised session error is reported through SNS
SendSignalMessage(cli) ==
    [sent |-> cli = "ok", sends |-> 1, runs |-> 1, notified |-> cli = "expired"]

\* what lambda_handler or handle_registration_action did when no signal-cli was run
NoRun(success) == [success |-> success, sends |-> 0, runs |-> 0, notified |-> FALSE]

\* one signal-cli run of a registration action: success is returncode == 0, and an
\* exception of subprocess.run is caught and reported as no success
RunSignalCli(cli) == [success |-> cli = "ok", sends |-> 0, runs |-> 1, notified |-> FALSE]

\* handle_registration_action(action, phone_number, data); its own credentials lookup
\* is the second one of the lambda_handler call
HandleRegistrationAction(action, req) ==
    LET lookup      == GetSignalCredentials(req, 2)
        credentials == lookup.value
    IN  CASE action = "register" -> RunSignalCli(req.cli)
          [] action = "verify" ->
                IF req.code = "" THEN NoRun(FALSE) ELSE RunSignalCli(req.cli)
          [] action = "joinGroup" ->
                IF lookup.raised \/ ~lookup.isdict THEN NoRun(FALSE)
                ELSE IF Get(credentials, "groupUrl") = Falsy THEN NoRun(FALSE)
                ELSE RunSignalCli(req.cli)
          [] action = "test" ->
                IF lookup.raised \/ ~lookup.isdict THEN NoRun(FALSE)
                ELSE IF GetGroupIdFromCredentials(credentials) # Falsy
                THEN LET m == SendSignalMessage(req.cli)
                     IN  [success |-> m.sent, sends |-> m.sends, runs |-> m.runs,
                          notified |-> m.notified]
                ELSE NoRun(FALSE)
          [] OTHER -> NoRun(FALSE)

\* a response of lambda_handler
Response(statusCode, did) ==
    [statusCode |-> statusCode, raised |-> FALSE, sends |-> did.sends, runs |-> did.runs,
     notified |-> did.notified]

\* an exception leaving a block
Raised == [statusCode |-> 0, raised |-> TRUE, sends |-> 0, runs |-> 0, notified |-> FALSE]

\* the try block of lambda_handler after download_signal_credentials()
HandleRequest(req) ==
    IF req.wrapped /\ req.body = "invalid" THEN Raised          \* json.loads(event['body'])
    ELSE
    LET first == GetSignalCredentials(req, 1)
    IN  IF first.raised \/ ~first.isdict THEN Raised           \* lookup, credentials.get
        ELSE IF Get(first.value, "phoneNumber") = Falsy THEN Raised        \* ValueError
        ELSE IF req.body # "dict" THEN Raised                               \* body.get
        ELSE IF req.action # ""
        THEN LET result == HandleRegistrationAction(req.action, req)
             IN  Response(IF result.success THEN 200 ELSE 500, result)
        ELSE
        LET second == GetSignalCredentials(req, 2)
        IN  IF second.raised \/ ~second.isdict THEN Raised
            ELSE IF Get(second.value, "phoneNumber") = Falsy THEN Raised
            ELSE
            LET group_id == GetGroupIdFromCredentials(second.value)
            IN  IF group_id # Falsy
                THEN LET m == SendSignalMessage(req.cli)
                     IN  Response(IF m.sent THEN 200 ELSE 500, m)
                ELSE Response(500, NoRun(FALSE))

\* lambda_handler(event, context): the response, and what the call did to the container
LambdaHandler(loaded, s3_bucket, req) ==
    LET dl == DownloadSignalCredentials(loaded, s3_bucket, req.download)
        r  == IF dl.raised THEN Raised ELSE HandleRequest(req)
    IN  [loaded |-> dl.loaded, downloads |-> dl.downloads, extractions |-> dl.extractions,
         reply |-> IF r.raised THEN Response(500, NoRun(FALSE)) ELSE r]   \* except Exception

\* import of handler.py in a new container: the environment is read, the flag is False
ColdStart(s3_bucket) ==
    /\ container = "cold"
    /\ container' = "warm"
    /\ bucket' = s3_bucket
    /\ credentials_loaded' = FALSE
    /\ UNCHANGED <<extractions, downloads, invocations, request, reply>>
    /\ UNCHANGED <<driverVars, pipeVars, fleetVars, now>>

\* one lambda_handler call on the request req, in which the download of the credentials
\* archive (when the call tries it) ends as result says
Invoke(req, result) ==
    /\ container = "warm"
    /\ credentials_loaded \/ bucket = Falsy => result = NoRequest.download
    /\ LET r == LambdaHandler(credentials_loaded, bucket, [req EXCEPT !.download = result])
       IN  /\ credentials_loaded' = r.loaded
           /\ downloads' = downloads + r.downloads
           /\ extractions' = extractions + r.extractions
           /\ reply' = r.reply
    /\ invocations' = invocations + 1
    /\ request' = [req EXCEPT !.download = result]
    /\ UNCHANGED <<container, bucket>>
    /\ UNCHANGED <<driverVars, pipeVars, fleetVars, now>>

(***************************************************************************)
(* SpecHandler: one container, every request shape and every answer of    *)
(* Secrets Manager and signal-cli, the credentials archive either loading  *)
(* or failing to download.                                                 *)
(***************************************************************************)
phone == <<"+", "1">>
gid == <<"g", "i", "d", "=">>
shareUrl == <<"u", "#", "a", "-", "_">>

\* the secrets: with everything, without a phone number, with a groupId only, with an
\* empty groupId next to a group URL, with a group URL only (with a fragment, without
\* '#', with an empty fragment), and without any group
SecretValues ==
    {[phoneNumber |-> phone, groupId |-> gid, groupUrl |-> shareUrl],
     [groupId |-> gid, groupUrl |-> shareUrl],
     [phoneNumber |-> phone, groupId |-> gid],
     [phoneNumber |-> phone, groupId |-> Falsy, groupUrl |-> shareUrl],
     [phoneNumber |-> phone, groupUrl |-> shareUrl],
     [phoneNumber |-> phone, groupUrl |-> <<"u">>],
     [phoneNumber |-> phone, groupUrl |-> <<"u", "#">>],
     [phoneNumber |-> phone]}

Actions == {"", "register", "verify", "joinGroup", "test", "status"}

\* a request in which everything the call does not read is as in NoRequest
Request(wrapped, body, action, code, lookup_fails, secret, credentials, cli) ==
    LET parsed  == ~(wrapped /\ body = "invalid")
        known   == /\ parsed
                   /\ lookup_fails # 1
                   /\ secret = "dict"
                   /\ Get(credentials, "phoneNumber") # Falsy
        acts    == known /\ body = "dict"
        again   == acts /\ action \in {"", "joinGroup", "test"}
        fetched == again /\ lookup_fails # 2
        runs    == \/ acts /\ action = "register"
                   \/ acts /\ action = "verify" /\ code # ""
                   \/ fetched /\ action = "joinGroup"
                              /\ Get(credentials, "groupUrl") # Falsy
                   \/ fetched /\ action \in {"", "test"}
                              /\ GetGroupIdFromCredentials(credentials) # Falsy
    IN  [wrapped      |-> wrapped,
         body         |-> IF ~parsed \/ known THEN body ELSE NoRequest.body,
         action       |-> IF acts THEN action ELSE NoRequest.action,
         code         |-> IF acts /\ action = "verify" THEN code ELSE NoRequest.code,
         download     |-> NoRequest.download,
         lookup_fails |-> IF ~parsed \/ (lookup_fails = 2 /\ ~again)
                          THEN NoRequest.lookup_fails ELSE lookup_fails,
         secret       |-> IF parsed /\ lookup_fails # 1 THEN secret ELSE NoRequest.secret,
         credentials  |-> IF parsed /\ lookup_fails # 1 /\ secret = "dict"
                          THEN credentials ELSE NoRequest.credentials,
         cli          |-> IF runs THEN cli ELSE NoRequest.cli]

Requests ==
    {Request(wrapped, body, action, code, lookup_fails, secret, credentials, cli) :
        wrapped \in BOOLEAN, body \in {"dict", "list", "invalid"}, action \in Actions,
        code \in {"", "123-456"}, lookup_fails \in 0..2,
        secret \in {"dict", "list", "invalid"}, credentials \in SecretValues,
        cli \in CliOutcomes}

NextHandler ==
    \/ \E s3_bucket \in {Falsy, <<"b">>} : ColdStart(s3_bucket)
    \/ \E req \in Requests, result \in {"download_failed", "ok"} :
            /\ invocations < HandlerCalls
            /\ Invoke(req, result)

SpecHandler == Init /\ [][NextHandler]_vars

(***************************************************************************)
(* SpecContainer: one container serving several calls in a row, every      *)
(* outcome of the download of the credentials archive in each.             *)
(***************************************************************************)
ContainerRequests ==
    {Request(TRUE, body, "", "", 0, "dict", [phoneNumber |-> phone, groupId |-> gid], cli) :
        body \in {"dict", "invalid"}, cli \in CliOutcomes}

NextContainer ==
    \/ \E s3_bucket \in {Falsy, <<"b">>} : ColdStart(s3_bucket)
    \/ \E req \in ContainerRequests, result \in DownloadOutcomes :
            /\ invocations < ContainerCalls
            /\ Invoke(req, result)

SpecContainer == Init /\ [][NextContainer]_vars

(***************************************************************************)
(* Properties                                                              *)
(***************************************************************************)
\* a step in which process_frame ran
FrameStep == stats'.frames_processed = stats.frames_processed + 1

\* the outcomes of a frame that passed the motion, detection and zone gates
\* without any stage raising
PastZone == {"rate_limited", "duplicate", "admitted", "forward_failed"}

\* the outcomes in which an upload was attempted
Forwarded == {"admitted", "forward_failed"}

\* C1: after a frame whose upload failed, the next frame that shows the same vehicle
\* (hash similar to the failed one) and passes the motion, detection and zone gates
\* is forwarded again: neither rate limited nor rejected as a duplicate.
C1_RetryAfterFailedForward ==
    [][(/\ outcome = "forward_failed"
        /\ FrameStep
        /\ outcome' \in PastZone
        /\ last'.hash # NoHash => Similar(last'.hash, last.hash))
       => outcome' \in Forwarded]_vars

\* C2: a detector call that raises on a frame with motion ends the frame as a
\* no_detection rejection, adds exactly one to errors and leaves the dedup cache and
\* the rate-limit clock alone.
C2_DetectorFailureIsNoDetection ==
    [][(FrameStep /\ last'.fault = "detector")
       => /\ outcome' = "no_detection"
          /\ stats'.errors = stats.errors + 1
          /\ recent_hashes' = recent_hashes
          /\ last_capture_time' = last_capture_time]_vars

\* C3: when a stage of process_frame raises, the frame loop stays in Streaming and
\* the failure is counted in errors; the loop stops only on a stop signal.
C3_LoopSurvivesException ==
    [][/\ (FrameStep /\ last'.fault \in {"detector", "hash"})
          => (state' = "Streaming" /\ stats'.errors = stats.errors + 1)
       /\ (state = "Streaming" /\ state' = "Stopped") => stop_cause' = "signal"]_vars

\* C4: a frame whose motion ratio is at most MOTION_THRESHOLD is rejected as
\* no_motion, the detector is not called, and the rate-limit clock and the dedup
\* cache stay as they were.
C4_NoMotionRejects ==
    [][(FrameStep /\ last'.motion <= MOTION_THRESHOLD)
       => /\ outcome' = "no_motion"
          /\ detector_calls' = detector_calls
          /\ last_capture_time' = last_capture_time
          /\ recent_hashes' = recent_hashes]_vars

\* C4 witness: a frame exactly at the threshold was rejected by a pipeline that had
\* already captured a vehicle.
C4_Witness ==
    /\ outcome = "no_motion"
    /\ last.motion = MOTION_THRESHOLD
    /\ recent_hashes # << >>
    /\ last_capture_time > 0

\* C5: a candidate that passed the motion, detection and zone gates passes the rate
\* limiter iff at least CAPTURE_INTERVAL_SECONDS have passed since the latest
\* successful forward (exactly the interval passes); with no forward yet it passes.
C5_RateLimiter ==
    [][(FrameStep /\ tcheck' # 0)
       => IF admitted_at = << >>
          THEN outcome' # "rate_limited"
          ELSE (outcome' # "rate_limited")
                  <=> (tcheck' - admitted_at[Len(admitted_at)] >= CAPTURE_INTERVAL_SECONDS)]_vars

\* C5 witness: two captures exactly the interval apart.
C5_Witness ==
    /\ Len(admitted_at) = 2
    /\ admitted_at[2] - admitted_at[1] = CAPTURE_INTERVAL_SECONDS
    /\ outcome = "admitted"

\* C6: last_capture_time changes only in a process_frame call whose upload succeeded,
\* to the time read at that call's rate-limit check; a failed upload keeps the clock,
\* adds exactly one to errors, leaves captures_uploaded alone and returns normally.
C6_ClockOnlyOnSuccess ==
    [][/\ (last_capture_time' # last_capture_time)
          => (FrameStep /\ outcome' = "admitted" /\ last_capture_time' = tcheck')
       /\ (FrameStep /\ outcome' = "forward_failed")
          => /\ last_capture_time' = last_capture_time
             /\ stats'.errors = stats.errors + 1
             /\ stats'.captures_uploaded = stats.captures_uploaded
             /\ upload_attempts' = upload_attempts + 1
             /\ state' = "Streaming"]_vars

\* C6 witness: an upload failed after an earlier capture had set the clock, and the
\* clock still shows the earlier capture although time has passed.
C6_Witness ==
    /\ outcome = "forward_failed"
    /\ admitted_at # << >>
    /\ last_capture_time = admitted_at[Len(admitted_at)]
    /\ tcheck > last_capture_time
    /\ stats.errors = 1

(***************************************************************************)
(* Properties of the dedup cache, checked under SpecLong                   *)
(***************************************************************************)
PairwiseNonSimilar(hs) ==
    \A i, j \in 1..Len(hs) : i # j => ~Similar(hs[i], hs[j])

LastN(hs, n) == IF Len(hs) > n THEN SubSeq(hs, Len(hs) - n + 1, Len(hs)) ELSE hs

InCache(h) == \E i \in 1..Len(recent_hashes) : recent_hashes[i] = h

\* C7: from an empty cache, K > MAX_RECENT_HASHES pairwise non-similar hashes leave
\* the cache holding exactly the last MAX_RECENT_HASHES of them, in insertion order.
C7_FifoEviction ==
    (Len(presented) > MAX_RECENT_HASHES /\ PairwiseNonSimilar(presented))
        => recent_hashes = LastN(presented, MAX_RECENT_HASHES)

\* C7 witness: two more hashes than the cache holds were presented, none similar to
\* another, and the two oldest are gone.
C7_Witness ==
    /\ Len(presented) = MAX_RECENT_HASHES + 2
    /\ PairwiseNonSimilar(presented)
    /\ recent_hashes[1] = presented[3]
    /\ ~InCache(presented[1])
    /\ ~InCache(presented[2])

\* C8: whatever the cache holds (1 to MAX_RECENT_HASHES entries) and at every
\* position of it, a candidate identical to a cached hash is a duplicate.
C8_IdenticalIsDuplicate ==
    /\ [](\A i \in 1..Len(recent_hashes) :
             IsDuplicateVehicle(recent_hashes, recent_hashes[i]).dup)
    /\ [][(FrameStep /\ last'.hash # NoHash /\ InCache(last'.hash))
            => outcome' = "duplicate"]_vars

\* C8 witness: a candidate identical to the oldest entry of a full cache was
\* rejected as a duplicate.
C8_Witness ==
    /\ outcome = "duplicate"
    /\ Len(recent_hashes) = MAX_RECENT_HASHES
    /\ last.hash = recent_hashes[1]

\* the hashes first presented after position p of the history
NewAfter(p) ==
    {presented[j] : j \in (p + 1)..Len(presented)} \ {presented[q] : q \in 1..p}

\* C9: a duplicate leaves the cache unchanged in content and order (not inserted,
\* not moved to the back), so a re-seen entry is still evicted once
\* MAX_RECENT_HASHES other hashes were inserted after it; a non-duplicate is
\* appended as the newest entry.
C9_DuplicateLeavesCache ==
    /\ [][/\ (FrameStep /\ outcome' = "duplicate") => recent_hashes' = recent_hashes
          /\ (FrameStep /\ outcome' \in Forwarded)
                => recent_hashes' = LastN(Append(recent_hashes, last'.hash),
                                          MAX_RECENT_HASHES)]_vars
    /\ [](\A p \in 1..Len(presented) :
             Cardinality(NewAfter(p)) >= MAX_RECENT_HASHES => ~InCache(presented[p]))

\* C9 witness: a vehicle was seen, seen again (duplicate), and later evicted.
C9_Witness ==
    /\ stats.duplicates_filtered > 0
    /\ Len(recent_hashes) = MAX_RECENT_HASHES
    /\ \E p, r \in 1..Len(presented) :
          p < r /\ presented[p] = presented[r] /\ ~InCache(presented[p])

\* C10: between two process_frame calls the cache never holds more than
\* MAX_RECENT_HASHES hashes.
C10_CacheBounded == Len(recent_hashes) <= MAX_RECENT_HASHES

\* C10 witness: the cache is full after more insertions than it can hold.
C10_Witness ==
    /\ Len(recent_hashes) = MAX_RECENT_HASHES
    /\ stats.captures_uploaded > MAX_RECENT_HASHES + 1

\* C11: the gates run in the order motion, detector, zone, rate limiter, dedup and
\* stop at the first rejection: a frame with a vehicle in the zone that arrives less
\* than CAPTURE_INTERVAL_SECONDS after the last capture is rejected as rate_limited,
\* and a rate_limited frame computes and inserts no fingerprint (the dedup cache is
\* unchanged) and attempts no upload.
C11_RateLimitedStopsEarly ==
    [][FrameStep =>
        /\ (/\ vehicle_in_roi' # NoVehicle
            /\ tcheck' - last_capture_time < CAPTURE_INTERVAL_SECONDS)
           => outcome' = "rate_limited"
        /\ outcome' = "rate_limited"
           => /\ last'.motion > MOTION_THRESHOLD
              /\ vehicle_in_roi' # NoVehicle
              /\ last'.hash = NoHash
              /\ presented' = presented
              /\ recent_hashes' = recent_hashes
              /\ upload_attempts' = upload_attempts
              /\ last_capture_time' = last_capture_time
              /\ stats'.duplicates_filtered = stats.duplicates_filtered
              /\ stats'.captures_uploaded = stats.captures_uploaded
              /\ stats'.errors = stats.errors]_vars

C11_Witness ==
    /\ outcome = "rate_limited"
    /\ recent_hashes # << >>
    /\ tcheck - last_capture_time < CAPTURE_INTERVAL_SECONDS

\* the frames that show, in the capture zone, the vehicle of the frame just admitted
SameVehicleFrames ==
    {f \in Frames : /\ f.motion \in Moving
                    /\ f.raw \in InZone
                    /\ f.fault = "none"
                    /\ Similar(f.hash, last.hash)}

\* the latest frame was admitted and uploaded, and it was the first to be compared
FirstAdmitted ==
    /\ outcome = "admitted"
    /\ presented = <<last.hash>>
    /\ recent_hashes = <<last.hash>>

\* C12 (as stated): a first frame compared with an empty cache and uploaded, then
\* the next sampled frame showing the same vehicle in the zone: the second frame is
\* rejected as a duplicate and duplicates_filtered grows by one.
C12_SecondIsDuplicate ==
    [][\A f \in SameVehicleFrames :
          (FirstAdmitted /\ ReadProcess(f))
          => /\ outcome' = "duplicate"
             /\ stats'.duplicates_filtered = stats.duplicates_filtered + 1]_vars

\* C12 (amended): the second frame is rejected as a duplicate when it reaches the
\* rate limiter at least CAPTURE_INTERVAL_SECONDS after the first frame's capture
\* time; when it comes sooner it is rejected as rate_limited, is not compared and
\* leaves duplicates_filtered alone.  Neither is uploaded.
C12_SecondIsDuplicateAfterInterval ==
    [][\A f \in SameVehicleFrames :
          (FirstAdmitted /\ ReadProcess(f))
          => /\ upload_attempts' = upload_attempts
             /\ IF now + f.d1 - last_capture_time >= CAPTURE_INTERVAL_SECONDS
                THEN /\ outcome' = "duplicate"
                     /\ stats'.duplicates_filtered = stats.duplicates_filtered + 1
                     /\ recent_hashes' = recent_hashes
                ELSE /\ outcome' = "rate_limited"
                     /\ stats'.duplicates_filtered = stats.duplicates_filtered
                     /\ presented' = presented]_vars

C12_Witness ==
    /\ outcome = "duplicate"
    /\ Len(presented) = 2
    /\ presented[1] # presented[2]
    /\ recent_hashes = <<presented[1]>>
    /\ stats.captures_uploaded = 1
    /\ stats.duplicates_filtered = 1
    /\ stats.frames_processed = 2

\* a step in which the driver submitted a frame to process_frame
Submitted == frame_count' = frame_count + 1 /\ Sampled(frame_count')

\* how much a counter grew in the step
Delta(counter) == stats'[counter] - stats[counter]

\* the counters of the stages, in the order the stages run, and how many of them
\* a frame with the given outcome passed
StageCounters == <<"motion_detected", "vehicles_detected", "vehicles_in_roi">>
StagesPassed(o) ==
    CASE o = "no_motion" -> 0
      [] o = "no_detection" -> 1
      [] o = "no_detection_in_zone" -> 2
      [] OTHER -> 3

\* C13: a process_frame call adds exactly one to frames_processed whatever its
\* outcome and at most one to every other counter, exactly for the stages the frame
\* passed: an admitted frame (motion, a vehicle in the zone, interval elapsed, empty
\* cache, upload succeeded) adds one to motion_detected, vehicles_detected,
\* vehicles_in_roi and captures_uploaded and nothing to duplicates_filtered and
\* errors; a frame rejected at a stage leaves the counters of the later stages alone.
C13_CountersFollowStages ==
    [][Submitted =>
        /\ Delta("frames_processed") = 1
        /\ \A c \in DOMAIN stats : Delta(c) \in {0, 1}
        /\ outcome' # "raised" =>
              /\ \A i \in 1..3 :
                    Delta(StageCounters[i]) = IF i <= StagesPassed(outcome') THEN 1 ELSE 0
              /\ Delta("duplicates_filtered") = IF outcome' = "duplicate" THEN 1 ELSE 0
              /\ Delta("captures_uploaded") = IF outcome' = "admitted" THEN 1 ELSE 0
              /\ Delta("errors") = IF outcome' = "forward_failed" THEN 1 ELSE 0
        /\ (/\ last'.motion > MOTION_THRESHOLD
            /\ vehicle_in_roi' # NoVehicle
            /\ tcheck' - last_capture_time >= CAPTURE_INTERVAL_SECONDS
            /\ recent_hashes = << >>
            /\ last'.fault = "none")
           => /\ outcome' = "admitted"
              /\ Delta("motion_detected") = 1
              /\ Delta("vehicles_detected") = 1
              /\ Delta("vehicles_in_roi") = 1
              /\ Delta("captures_uploaded") = 1
              /\ Delta("duplicates_filtered") = 0
              /\ Delta("errors") = 0]_vars

C13_Witness ==
    /\ outcome = "admitted"
    /\ stats = [frames_processed |-> 1, motion_detected |-> 1, vehicles_detected |-> 1,
                vehicles_in_roi |-> 1, duplicates_filtered |-> 0,
                captures_uploaded |-> 1, errors |-> 0]

\* a step in which process_frame called the detector and the call returned
DetectorRan ==
    /\ Submitted
    /\ last'.motion > MOTION_THRESHOLD
    /\ last'.fault # "detector"

AllowedAtLeast(box) ==
    box.cls \in VEHICLE_CLASSES /\ box.conf >= VEHICLE_CONFIDENCE_THRESHOLD
AllowedAbove(box) ==
    box.cls \in VEHICLE_CLASSES /\ box.conf > VEHICLE_CONFIDENCE_THRESHOLD

\* the detections are the given candidates, in their order
SameBoxes(found, boxes) ==
    /\ Len(found) = Len(boxes)
    /\ \A i \in 1..Len(boxes) :
          /\ found[i].class_id = boxes[i].cls
          /\ found[i].confidence = boxes[i].conf
          /\ found[i].bbox = boxes[i].bbox

\* the frame ends as no_detection and touches nothing behind the detector
EndsAsNoDetection ==
    /\ outcome' = "no_detection"
    /\ vehicle_in_roi' = NoVehicle
    /\ Delta("vehicles_detected") = 0
    /\ Delta("vehicles_in_roi") = 0
    /\ tcheck' = 0
    /\ last_capture_time' = last_capture_time
    /\ recent_hashes' = recent_hashes
    /\ presented' = presented
    /\ upload_attempts' = upload_attempts

CentreInRectangle(bbox) ==
    LET cx2 == bbox[1] + bbox[3]
        cy2 == bbox[2] + bbox[4]
    IN  /\ 2 * FrameShape.w * DefaultROI.x <= 100 * cx2
        /\ 100 * cx2 <= 2 * FrameShape.w * (DefaultROI.x + DefaultROI.width)
        /\ 2 * FrameShape.h * DefaultROI.y <= 100 * cy2
        /\ 100 * cy2 <= 2 * FrameShape.h * (DefaultROI.y + DefaultROI.height)

\* C15: a detection is in the zone if and only if the centre of its box satisfies
\* frame_w*x <= center_x <= frame_w*(x+width) and
\* frame_h*y <= center_y <= frame_h*(y+height), a centre exactly on an edge of the
\* rectangle counting as inside, whatever the extent of the box.
C15_InclusiveContainment ==
    \A i \in 1..Len(vehicles) : vehicles[i].in_roi <=> CentreInRectangle(vehicles[i].bbox)

\* the positions, in the detector's order, of the detections flagged in_roi
InRoiPositions(found) == {i \in 1..Len(found) : found[i].in_roi}

\* C16: when kept detections are in the capture zone, process_frame selects the
\* first of them in the detector's output order, whatever the confidences, passing
\* over the detections outside the zone that come before it; the frame is rejected
\* as no_detection_in_zone only when there are kept detections and none is in the
\* zone.
C16_FirstInZoneSelected ==
    [][DetectorRan =>
        LET positions == InRoiPositions(vehicles')
        IN  /\ positions # {} =>
                  LET first == CHOOSE i \in positions : \A j \in positions : i <= j
                  IN  /\ vehicle_in_roi' = vehicles'[first]
                      /\ vehicle_in_roi'.in_roi
                      /\ outcome' \notin {"no_detection", "no_detection_in_zone"}
            /\ positions = {} => vehicle_in_roi' = NoVehicle
            /\ outcome' = "no_detection_in_zone"
                  <=> (vehicles' # << >> /\ positions = {})]_vars

C16_Witness ==
    /\ last.raw = <<carOut, truckIn, carIn>>
    /\ Len(vehicles) = 3
    /\ vehicle_in_roi.bbox = truckIn.bbox
    /\ vehicle_in_roi.confidence < vehicles[3].confidence
    /\ outcome = "admitted"

\* C17: a process_frame call makes at most one upload attempt, and makes one only
\* for a frame that passed all five gates in that call: motion above the threshold,
\* a kept detection, a kept detection in the zone, the interval since the last
\* capture elapsed, and a hash similar to none in the cache; an attempt that fails
\* is not repeated within the call.
C17_OneForwardAfterAllGates ==
    [][/\ upload_attempts' - upload_attempts \in {0, 1}
       /\ upload_attempts' # upload_attempts
          => /\ Submitted
             /\ last'.motion > MOTION_THRESHOLD
             /\ vehicles' # << >>
             /\ vehicle_in_roi' # NoVehicle
             /\ vehicle_in_roi'.in_roi
             /\ tcheck' - last_capture_time >= CAPTURE_INTERVAL_SECONDS
             /\ last'.hash # NoHash
             /\ \A i \in 1..Len(recent_hashes) : ~Similar(last'.hash, recent_hashes[i])
             /\ outcome' \in Forwarded
             /\ Delta("captures_uploaded") + Delta("errors") = 1
       /\ (Submitted /\ outcome' = "forward_failed")
          => /\ upload_attempts' = upload_attempts + 1
             /\ Delta("errors") = 1
             /\ Delta("captures_uploaded") = 0]_vars

C17_Witness ==
    /\ outcome = "forward_failed"
    /\ upload_attempts = 2
    /\ stats.captures_uploaded = 1
    /\ stats.errors = 1
    /\ stats.frames_processed = 2

\* C18: while streaming, a read frame is submitted to process_frame exactly when the
\* running count of read frames is a multiple of FRAME_STRIDE; a frame that is not
\* submitted reaches neither the background model nor any other pipeline state
\* (frames_processed, the dedup cache, the rate-limit clock), and nothing but a
\* submitted frame changes them.
C18_EveryThirdFrameSubmitted ==
    [][/\ frame_count' # frame_count
          => /\ state = "Streaming"
             /\ frame_count' = frame_count + 1
             /\ IF frame_count' % FRAME_STRIDE = 0
                THEN /\ bg_updates' = bg_updates + 1
                     /\ Delta("frames_processed") = 1
                ELSE UNCHANGED pipeVars
       /\ frame_count' = frame_count => UNCHANGED pipeVars
       /\ stats'.frames_processed = frame_count' \div FRAME_STRIDE
       /\ bg_updates' = stats'.frames_processed]_vars

C18_Witness ==
    /\ state = "Streaming"
    /\ frame_count = 2 * FRAME_STRIDE + 2
    /\ stats.frames_processed = 2
    /\ bg_updates = 2
    /\ recent_hashes # << >>
    /\ last_capture_time > 0

\* a step in which the driver tried to open the source for the first time and failed
OpenFailed == state = "Connecting" /\ opened' = opened + 1 /\ ~cap_ok'

\* C19: when the source cannot be opened the driver does not stop: it waits
\* RECONNECT_SLEEP and opens the source again, without a cap on the retries; the
\* driver never reaches Stopped because of a connection failure.
C19_OpenFailureRetries ==
    [][/\ OpenFailed => (state' # "Stopped" /\ now' = now + RECONNECT_SLEEP)
       /\ state' = "Stopped" => stop_cause' # "open_failed"]_vars

\* a step in which a read failed while streaming: the driver slept and opened the
\* source again
ReadFailed == state = "Streaming" /\ opened' = opened + 1

\* C20: a failed read while streaming never stops the driver: it waits
\* RECONNECT_SLEEP, opens the source again and goes on reading, however many reads
\* fail in a row; the reconnect leaves the dedup cache, the rate-limit clock, the
\* counters and the count of read frames as they were, and when a read succeeds
\* again the frames are sampled and processed as before.
C20_ReadFailureReconnects ==
    [][/\ ReadFailed
          => /\ state' = "Streaming"
             /\ stop_cause' = "none"
             /\ released' = released
             /\ now' = now + RECONNECT_SLEEP
             /\ frame_count' = frame_count
             /\ recent_hashes' = recent_hashes
             /\ last_capture_time' = last_capture_time
             /\ stats' = stats
             /\ UNCHANGED pipeVars
       /\ (opened > 1 /\ frame_count' = frame_count + 1)
          => /\ state = "Streaming" /\ cap_ok
             /\ Delta("frames_processed") = IF frame_count' % FRAME_STRIDE = 0 THEN 1 ELSE 0
       /\ (state = "Streaming" /\ state' = "Stopped") => opened' = opened]_vars

C20_Witness ==
    /\ state = "Streaming"
    /\ opened = 3
    /\ cap_ok
    /\ frame_count = 2 * FRAME_STRIDE
    /\ admitted_at = <<StartTime>>
    /\ now = StartTime + 2 * RECONNECT_SLEEP
    /\ outcome = "duplicate"
    /\ recent_hashes = <<vehicleFrame.hash>>
    /\ last_capture_time = StartTime
    /\ stats.frames_processed = 2

\* C21: whenever the driver is Stopped (after a stop signal, an exception or any
\* number of reconnects), release() has been called on every handle that was opened
\* during the run.
C21_HandlesReleased == state = "Stopped" => unreleased = 0

\* no process_frame call is left half done: every hash handed to the comparison was
\* found to be a duplicate or was followed by an upload attempt, and the rate-limit
\* clock stands at the latest successful upload
FrameComplete ==
    /\ Len(presented) = stats.duplicates_filtered + upload_attempts
    /\ Len(admitted_at) = stats.captures_uploaded
    /\ last_capture_time = IF admitted_at = << >> THEN 0 ELSE admitted_at[Len(admitted_at)]

\* C22: a stop request takes effect only between frames: when the driver is Stopped
\* by a signal, the frame it had begun is complete (no hash inserted without an
\* upload attempt, no upload done without the rate-limit clock advanced).
C22_StopsBetweenFrames == (state = "Stopped" /\ stop_cause = "signal") => FrameComplete

\* C23: every process_frame call updates the background model of the motion gate
\* exactly once, whether the frame is rejected at any stage or admitted: between
\* frames the number of background updates equals frames_processed.
C23_BackgroundSeesEveryFrame == bg_updates = stats.frames_processed

C23_Witness ==
    /\ bg_updates = 2
    /\ stats.frames_processed = 2
    /\ stats.captures_uploaded = 1
    /\ outcome = "no_motion"
    /\ last.motion <= MOTION_THRESHOLD

\* an instance run alone on the given calls (frame, time of the call), from the state
\* __init__ leaves: its attributes at the end and the outcomes of its calls
RECURSIVE RunAlone(_)
RunAlone(calls) ==
    IF calls = << >> THEN [pipe |-> NewPipeline, outcomes |-> << >>]
    ELSE LET before == RunAlone(SubSeq(calls, 1, Len(calls) - 1))
             call   == calls[Len(calls)]
             r      == PipelineStep(before.pipe, call[1], call[2])
         IN  [pipe |-> r.pipe, outcomes |-> Append(before.outcomes, r.outcome)]

Outcomes(calls) == [i \in 1..Len(calls) |-> calls[i][3]]

\* C24: two instances whose process_frame calls interleave are independent: each
\* instance's outcomes, dedup cache, rate-limit clock, background model and counters
\* are those it has when run alone on the same frames at the same times, so no call on
\* one instance changes the other.
C24_InstancesIndependent ==
    /\ Outcomes(trace[1]) = RunAlone(trace[1]).outcomes
    /\ [recent_hashes |-> recent_hashes, last_capture_time |-> last_capture_time,
        stats |-> stats, bg_updates |-> bg_updates] = RunAlone(trace[1]).pipe
    /\ Outcomes(trace[2]) = RunAlone(trace[2]).outcomes
    /\ camera2 = RunAlone(trace[2]).pipe

C24_Witness ==
    /\ Len(trace[1]) = 2
    /\ Len(trace[2]) = 2
    /\ trace[1][1][2] < trace[2][1][2]
    /\ trace[2][1][2] < trace[1][2][2]
    /\ trace[1][2][2] <= trace[2][2][2]
    /\ Outcomes(trace[1]) = <<"admitted", "duplicate">>
    /\ Outcomes(trace[2]) = <<"admitted", "duplicate">>
    /\ recent_hashes = camera2.recent_hashes
    /\ last_capture_time # camera2.last_capture_time

\* C25: while the driver runs (frames processed, frames skipped or the source being
\* reconnected), a loop iteration that starts when STATS_INTERVAL or more has passed
\* since the previous snapshot emits a snapshot, and a periodic snapshot is never
\* emitted sooner than STATS_INTERVAL after the previous one.
C25_SnapshotEveryInterval ==
    [][/\ (/\ state = "Streaming"
           /\ state' = "Streaming"
           /\ now - last_stats_time >= STATS_INTERVAL)
          => snapshots' = snapshots + 1
       /\ snapshots' # snapshots
          => /\ snapshots' = snapshots + 1
             /\ now' - last_stats_time >= STATS_INTERVAL
             /\ last_stats_time' = now']_vars

\* some hash of the cache is within the given number of bits of h
WithinBits(cache, h, bits) == \E i \in 1..Len(cache) : HashDiff(h, cache[i]) <= bits

\* C26: with 256-bit hashes and the threshold 0.85 compared strictly, a candidate is
\* a duplicate if and only if some cached hash is within 38 bits of it; a candidate
\* 39 bits or more from every cached hash is not a duplicate and is inserted.
C26_DuplicateWithin38Bits ==
    [][presented' # presented =>
        LET h == presented'[Len(presented')]
        IN  /\ outcome' = "duplicate" <=> WithinBits(recent_hashes, h, 38)
            /\ WithinBits(recent_hashes, h, 38) => recent_hashes' = recent_hashes
            /\ ~WithinBits(recent_hashes, h, 38)
               => /\ \A i \in 1..Len(recent_hashes) : HashDiff(h, recent_hashes[i]) >= 39
                  /\ outcome' \in Forwarded
                  /\ recent_hashes'[Len(recent_hashes')] = h
                  /\ Len(recent_hashes') = Len(recent_hashes) + 1]_vars

C26_Witness ==
    /\ presented = <<<<0, 0>>, <<0, 39>>, <<0, 77>>>>
    /\ recent_hashes = <<<<0, 0>>, <<0, 39>>>>
    /\ HashDiff(presented[3], recent_hashes[1]) > 38
    /\ HashDiff(presented[3], recent_hashes[2]) = 38
    /\ outcome = "duplicate"
    /\ stats.captures_uploaded = 2

\* the rectangle <<x1, y1, x2, y2>> lies inside the w x h frame
InsideFrame(r, w, h) == 0 <= r[1] /\ r[1] <= r[3] /\ r[3] <= w /\ 0 <= r[2] /\ r[2] <= r[4] /\ r[4] <= h

\* the rectangle outer contains the rectangle inner
Contains(outer, inner) ==
    outer[1] <= inner[1] /\ outer[2] <= inner[2] /\ inner[3] <= outer[3] /\ inner[4] <= outer[4]

\* floor(0.2 * size)
Fifth(size) == CHOOSE k \in 0..size : 5 * k <= size /\ size < 5 * (k + 1)

\* C27: for a box inside the frame, extract_vehicle_region cuts out
\* [max(0,x1-px), min(w,x2+px)] x [max(0,y1-py), min(h,y2+py)] with
\* px = floor(0.2*(x2-x1)) and py = floor(0.2*(y2-y1)): the region lies inside the
\* frame and contains the box.
C27_CropInsideFrameAroundBox ==
    vehicle_frame # NoRegion =>
        LET b  == vehicle_in_roi.bbox
            w  == FrameShape.w
            h  == FrameShape.h
            px == Fifth(b[3] - b[1])
            py == Fifth(b[4] - b[2])
        IN  /\ InsideFrame(b, w, h)
            /\ vehicle_frame[1] = (IF b[1] - px < 0 THEN 0 ELSE b[1] - px)
            /\ vehicle_frame[2] = (IF b[2] - py < 0 THEN 0 ELSE b[2] - py)
            /\ vehicle_frame[3] = (IF b[3] + px > w THEN w ELSE b[3] + px)
            /\ vehicle_frame[4] = (IF b[4] + py > h THEN h ELSE b[4] + py)
            /\ InsideFrame(vehicle_frame, w, h)
            /\ Contains(vehicle_frame, b)

C27_Witness ==
    /\ vehicle_in_roi.bbox = <<40, 28, 60, 100>>
    /\ vehicle_frame = <<36, 14, 64, FrameShape.h>>
    /\ outcome = "admitted"

\* C28: under a clock that never goes back, any two successfully uploaded captures
\* were admitted at least CAPTURE_INTERVAL_SECONDS apart, and last_capture_time is the
\* admission time of the latest successful upload (zero if there was none), so it
\* never decreases.
C28_CapturesSpaced ==
    /\ \A i, j \in 1..Len(admitted_at) :
          i < j => admitted_at[j] - admitted_at[i] >= CAPTURE_INTERVAL_SECONDS
    /\ last_capture_time = IF admitted_at = << >> THEN 0 ELSE admitted_at[Len(admitted_at)]
    /\ last_capture_time <= now
    /\ Len(admitted_at) = stats.captures_uploaded

C28_Witness ==
    /\ Len(admitted_at) = 2
    /\ admitted_at[2] - admitted_at[1] = CAPTURE_INTERVAL_SECONDS
    /\ last_capture_time = admitted_at[2]
    /\ stats.captures_uploaded = 2

\* C29: between process_frame calls no two hashes of the dedup cache are similar
\* above the threshold to each other (the distance being symmetric): a hash is
\* inserted only when it is similar to none of the cached ones.
C29_CachePairwiseDistinct ==
    /\ \A a, b \in HashInputs : HashDiff(a, b) = HashDiff(b, a)
    /\ \A i, j \in 1..Len(recent_hashes) :
          i # j => /\ HashDiff(recent_hashes[i], recent_hashes[j]) >= 39
                   /\ ~Similar(recent_hashes[i], recent_hashes[j])

C29_Witness ==
    /\ recent_hashes = <<<<0, 0>>, <<0, 39>>>>
    /\ presented = <<<<0, 0>>, <<0, 39>>, <<0, 38>>>>
    /\ outcome = "duplicate"

\* C30: between process_frame calls the counters form a funnel,
\* frames_processed >= motion_detected >= vehicles_detected >= vehicles_in_roi >=
\* duplicates_filtered + captures_uploaded + errors (errors counts the failed
\* uploads), and no counter ever decreases.
C30_CountersFunnel ==
    [][/\ stats'.frames_processed >= stats'.motion_detected
       /\ stats'.motion_detected >= stats'.vehicles_detected
       /\ stats'.vehicles_detected >= stats'.vehicles_in_roi
       /\ stats'.vehicles_in_roi >=
             stats'.duplicates_filtered + stats'.captures_uploaded + stats'.errors
       /\ stats'.captures_uploaded + stats'.errors = upload_attempts'
       /\ \A c \in DOMAIN stats : stats'[c] >= stats[c]]_vars

C30_Witness ==
    /\ stats.frames_processed = 2
    /\ stats.motion_detected = 2
    /\ stats.vehicles_detected = 2
    /\ stats.vehicles_in_roi = 2
    /\ stats.captures_uploaded = 1
    /\ stats.errors = 1
    /\ stats.duplicates_filtered = 0

(***************************************************************************)
(* Properties of the Signal API handler                                    *)
(***************************************************************************)
\* the latest lambda_handler call ran signal-cli and signal-cli exited with 0
Delivered == reply.runs = 1 /\ request.cli = "ok"

\* the credentials the latest call read yield a group ID
GroupConfigured ==
    request.secret = "dict" /\ GetGroupIdFromCredentials(request.credentials) # Falsy

HandlerStep == invocations' = invocations + 1

\* C32: across the calls served by one container the credentials archive is fetched and
\* extracted successfully at most once: a completed extraction sets the loaded flag,
\* and with the flag set a call neither downloads nor extracts; a failed download or
\* extraction leaves the flag unset and does not reach the caller (the response is the
\* one a container with loaded credentials gives), and the next call tries the
\* download again.
C32_CredentialsLoadedOnce ==
    [][HandlerStep =>
          /\ extractions' <= 1
          /\ extractions' > extractions => credentials_loaded'
          /\ credentials_loaded =>
                /\ credentials_loaded'
                /\ downloads' = downloads
                /\ extractions' = extractions
          /\ ~credentials_loaded /\ bucket # Falsy =>
                /\ downloads' = downloads + 1
                /\ request'.download # "ok" => ~credentials_loaded'
                /\ reply' = LambdaHandler(TRUE, bucket, request').reply]_vars

=============================================================================
